---- MODULE Spec2Model ----
(***************************************************************************)
(* Model of dashboard/server.py: the deployment log (deployment_logs), the *)
(* registry of running jobs (running_processes), the background task      *)
(* run_script_async and the request handlers deploy_app, stop_app,         *)
(* get_logs and get_status.                                                *)
(*                                                                         *)
(* Threads: thread 0 is a request-handler thread, threads 1..MaxJobs are   *)
(* the daemon threads started by deploy_app.  The module keeps no lock, so *)
(* every access to deployment_logs or running_processes is one step of its *)
(* own and any other thread may run between two of them.                   *)
(*                                                                         *)
(* Not modelled: the timestamp of an entry (no operation branches on it;   *)
(* the history field seq, the ordinal of the append, stands where an       *)
(* entry has to be told from another), print() at the end of log_message,  *)
(* and the handlers index, app_js, get_apps and system_action.             *)
(***************************************************************************)
EXTENDS Integers, Sequences, FiniteSets, TLC

----------------------------------------------------------------------------
(* Program constants *)

MaxLogs == 100
LogsWindow == 50

script_map ==
    [docker     |-> "scripts/run-docker.sh",
     kubernetes |-> "scripts/run-k8s.sh",
     ansible    |-> "scripts/run-ansible.sh",
     terraform  |-> "scripts/run-terraform.sh"]

----------------------------------------------------------------------------
(* Bounds of the model *)

MaxJobs == 2
MaxLines == 2
MaxHandlerLogs == 1

Jobs == 1 .. MaxJobs
Handler == 0
Threads == {Handler} \cup Jobs

RequestTypes == {"docker", "ansible", "unknowntype"}
AppNames == {"myapp"}
ExitCodes == {0, 1}

(* Output lines of a process, as the characters before the line terminator. *)
Whitespace == {" ", "\t", "\r", "\n"}
InvalidByte == "\\xff"
LineBuilding == <<"b", "u", "i", "l", "d", "i", "n", "g">>
LineDone == <<" ", "d", "o", "n", "e">>
LineBlank == <<" ">>
LineUndecodable == <<InvalidByte>>
OutputLines == {LineBuilding, LineDone, LineBlank, LineUndecodable}

LaunchError == "[Errno 2] No such file or directory"
ChmodError == "[Errno 1] Operation not permitted"
DecodeError == "'utf-8' codec can't decode byte 0xff in position 0: invalid start byte"
ComposeMissing == "[Errno 2] No such file or directory: 'docker-compose'"
ComposeStderr == "no configuration file provided: not found"

----------------------------------------------------------------------------
(* Pure helpers *)

RECURSIVE lstrip(_)
lstrip(s) ==
    IF s = <<>> THEN s
    ELSE IF Head(s) \in Whitespace THEN lstrip(Tail(s)) ELSE s

RECURSIVE rstrip(_)
rstrip(s) ==
    IF s = <<>> THEN s
    ELSE IF s[Len(s)] \in Whitespace THEN rstrip(SubSeq(s, 1, Len(s) - 1)) ELSE s

strip(s) == rstrip(lstrip(s))

RECURSIVE text(_)
text(s) == IF s = <<>> THEN "" ELSE Head(s) \o text(Tail(s))

Decodable(raw) == \A i \in 1 .. Len(raw) : raw[i] # InvalidByte

process_key(app_type, app_name) == app_type \o "_" \o app_name

StartingMessage(app_type, app_name) ==
    "Starting " \o app_type \o " deployment: " \o app_name

LineMessage(app_name, line) == "[" \o app_name \o "] " \o text(line)

SuccessMessage(app_name) == "Successfully deployed " \o app_name

FailedMessage(app_name, return_code) ==
    "Failed to deploy " \o app_name \o " (exit code: " \o ToString(return_code) \o ")"

ErrorMessage(app_name, e) == "Error deploying " \o app_name \o ": " \o e

KeyErrorText(key) == "'" \o key \o "'"

Last(s, k) == SubSeq(s, IF Len(s) > k THEN Len(s) - k + 1 ELSE 1, Len(s))

----------------------------------------------------------------------------
(* State *)

VARIABLES
    deployment_logs,    \* the list of log entries, oldest first
    running_processes,  \* dict: process key -> the Popen object (named by its job)
    lm,                 \* per thread: where it stands inside log_message
    pc,                 \* per job thread: where it stands inside run_script_async
    job,                \* per job thread: the arguments app_type, app_name
    proc,               \* per job: the external process, its exit status, and
                        \* whether process.wait() has returned it
    out,                \* per job: the raw lines read from process.stdout so far
    hist,               \* history: per thread, the entries it has appended
    ack,                \* history: per job, the answer its deploy request returned
    req,                \* the request-handler thread
    response,           \* the response the handler is about to return
    total               \* history: number of appends made to deployment_logs

vars == <<deployment_logs, running_processes, lm, pc, job, proc, out, hist, ack,
          req, response, total>>

NoCall == [pc |-> "idle", message |-> "", level |-> ""]
NoJob == [app_type |-> "", app_name |-> ""]
NoProc == [state |-> "none", status |-> 0, waited |-> FALSE]
NoResponse == [code |-> 0, status |-> "", body |-> <<>>,
               running_deployments |-> 0, total_logs |-> 0, processes |-> {}]
IdleReq == [pc |-> "idle", op |-> "", job |-> 0, seen |-> 0,
            running_count |-> 0, total_logs |-> 0]

LogEntry(t, message, level, n) ==
    [level |-> level, message |-> message, thread |-> t, seq |-> n]

StoppedMessage(app_name) == "Stopped Docker application: " \o app_name

StopFailedMessage(app_name, stderr) == "Failed to stop " \o app_name \o ": " \o stderr

StopErrorMessage(app_name, e) == "Error stopping " \o app_name \o ": " \o e

(* The log after n earlier appends made by stop requests that succeeded. *)
PriorLog(n) ==
    LET len == IF n > MaxLogs THEN MaxLogs ELSE n
    IN  [i \in 1 .. len |->
            LogEntry(Handler, StoppedMessage("myapp"), "SUCCESS", n - len + i)]

InitWith(n) ==
    /\ deployment_logs = PriorLog(n)
    /\ total = n
    /\ running_processes = [k \in {} |-> 0]
    /\ lm = [t \in Threads |-> NoCall]
    /\ pc = [j \in Jobs |-> "unborn"]
    /\ job = [j \in Jobs |-> NoJob]
    /\ proc = [j \in Jobs |-> NoProc]
    /\ out = [j \in Jobs |-> <<>>]
    /\ hist = [t \in Threads |-> <<>>]
    /\ ack = [j \in Jobs |-> "none"]
    /\ req = IdleReq
    /\ response = NoResponse

----------------------------------------------------------------------------
(* log_message, lines 24-38 *)

(* The call log_message(message, level) by thread t: its frame. *)
Call(t, message, level) ==
    [lm EXCEPT ![t] = [pc |-> "append", message |-> message, level |-> level]]

Returned(t) == lm[t].pc = "idle"

(* Mutant of LogAppend: the entry is inserted at the head (insert(0, ...)). *)
LogAppend_AtHead(t) ==
    /\ lm[t].pc = "append"
    /\ deployment_logs' =
          <<LogEntry(t, lm[t].message, lm[t].level, total + 1)>> \o deployment_logs
    /\ total' = total + 1
    /\ hist' = [hist EXCEPT ![t] =
                    Append(@, LogEntry(t, lm[t].message, lm[t].level, total + 1))]
    /\ lm' = [lm EXCEPT ![t].pc = "len"]
    /\ UNCHANGED <<running_processes, pc, job, proc, out, ack, req, response>>

(* line 32: deployment_logs.append(log_entry) *)
LogAppend(t) ==
    /\ lm[t].pc = "append"
    /\ deployment_logs' =
          Append(deployment_logs, LogEntry(t, lm[t].message, lm[t].level, total + 1))
    /\ total' = total + 1
    /\ hist' = [hist EXCEPT ![t] =
                    Append(@, LogEntry(t, lm[t].message, lm[t].level, total + 1))]
    /\ lm' = [lm EXCEPT ![t].pc = "len"]
    /\ UNCHANGED <<running_processes, pc, job, proc, out, ack, req, response>>

(* line 35: if len(deployment_logs) > 100 *)
LogLen(t) ==
    /\ lm[t].pc = "len"
    /\ lm' = IF Len(deployment_logs) > MaxLogs
             THEN [lm EXCEPT ![t].pc = "pop"]
             ELSE [lm EXCEPT ![t] = NoCall]
    /\ UNCHANGED <<deployment_logs, running_processes, pc, job, proc, out, hist, ack,
                   req, response, total>>

(* line 36: deployment_logs.pop(0) *)
LogPop(t) ==
    /\ lm[t].pc = "pop"
    /\ deployment_logs # <<>>
    /\ deployment_logs' = Tail(deployment_logs)
    /\ lm' = [lm EXCEPT ![t] = NoCall]
    /\ UNCHANGED <<running_processes, pc, job, proc, out, hist, ack, req, response,
                   total>>

----------------------------------------------------------------------------
(* run_script_async, lines 40-80 *)

Key(j) == process_key(job[j].app_type, job[j].app_name)

At(j, label) == pc[j] = label /\ Returned(j)

(* line 43: log_message("Starting ...") *)
RunStart(j) ==
    /\ At(j, "start")
    /\ lm' = Call(j, StartingMessage(job[j].app_type, job[j].app_name), "INFO")
    /\ pc' = [pc EXCEPT ![j] = "popen"]
    /\ UNCHANGED <<deployment_logs, running_processes, job, proc, out, hist, ack,
                   req, response, total>>

(* line 59: running_processes[process_key] = process *)
Put(d, k, v) == [x \in DOMAIN d \cup {k} |-> IF x = k THEN v ELSE d[x]]

(* Mutant of Popen: the key is stored before the launch, so a failed launch
   leaves it in running_processes. *)
Popen_RegistersFirst(j, launched) ==
    /\ At(j, "popen")
    /\ running_processes' = Put(running_processes, Key(j), j)
    /\ IF launched
       THEN /\ proc' = [proc EXCEPT ![j].state = "running"]
            /\ pc' = [pc EXCEPT ![j] = "read"]
            /\ lm' = lm
       ELSE /\ proc' = proc
            /\ pc' = [pc EXCEPT ![j] = "failed"]
            /\ lm' = Call(j, ErrorMessage(job[j].app_name, LaunchError), "ERROR")
    /\ UNCHANGED <<deployment_logs, job, out, hist, ack, req, response, total>>

(* lines 49-55: subprocess.Popen; launched says whether the command could be
   started.  On failure the except clause (lines 79-80) logs the error. *)
Popen(j, launched) ==
    /\ At(j, "popen")
    /\ IF launched
       THEN /\ proc' = [proc EXCEPT ![j].state = "running"]
            /\ pc' = [pc EXCEPT ![j] = "register"]
            /\ lm' = lm
       ELSE /\ proc' = proc
            /\ pc' = [pc EXCEPT ![j] = "failed"]
            /\ lm' = Call(j, ErrorMessage(job[j].app_name, LaunchError), "ERROR")
    /\ UNCHANGED <<deployment_logs, running_processes, job, out, hist, ack, req,
                   response, total>>

(* Mutant of Register: running_processes.setdefault(key, process), which
   keeps the entry of a job that already holds the key. *)
Register_KeepsFirst(j) ==
    /\ At(j, "register")
    /\ running_processes' = IF Key(j) \in DOMAIN running_processes
                            THEN running_processes
                            ELSE Put(running_processes, Key(j), j)
    /\ pc' = [pc EXCEPT ![j] = "read"]
    /\ UNCHANGED <<deployment_logs, lm, job, proc, out, hist, ack, req, response,
                   total>>

(* lines 58-59: running_processes[process_key] = process *)
Register(j) ==
    /\ At(j, "register")
    /\ running_processes' = Put(running_processes, Key(j), j)
    /\ pc' = [pc EXCEPT ![j] = "read"]
    /\ UNCHANGED <<deployment_logs, lm, job, proc, out, hist, ack, req, response,
                   total>>

(* The external process ends with exit code rc, closing its output. *)
ProcExit(j, rc) ==
    /\ proc[j].state = "running"
    /\ proc' = [proc EXCEPT ![j].state = "exited", ![j].status = rc]
    /\ UNCHANGED <<deployment_logs, running_processes, lm, pc, job, out, hist, ack,
                   req, response, total>>

LinesRead == Cardinality(UNION {{<<j, i>> : i \in 1 .. Len(out[j])} : j \in Jobs})

(* Mutant of ReadLine: line 63, line = line.strip(), is left out. *)
ReadLine_NoStrip(j, raw) ==
    /\ At(j, "read")
    /\ proc[j].state \in {"running", "exited"}
    /\ LinesRead < MaxLines
    /\ out' = [out EXCEPT ![j] = Append(@, raw)]
    /\ IF ~Decodable(raw)
       THEN /\ pc' = [pc EXCEPT ![j] = "failed"]
            /\ lm' = Call(j, ErrorMessage(job[j].app_name, DecodeError), "ERROR")
       ELSE /\ pc' = pc
            /\ lm' = IF raw # <<>>
                     THEN Call(j, LineMessage(job[j].app_name, raw), "INFO")
                     ELSE lm
    /\ UNCHANGED <<deployment_logs, running_processes, job, proc, hist, ack, req,
                   response, total>>

(* lines 62-65: the next line of process.stdout arrives.  A line that cannot be
   decoded raises inside the iteration and the except clause logs the error. *)
ReadLine(j, raw) ==
    /\ At(j, "read")
    /\ proc[j].state \in {"running", "exited"}
    /\ LinesRead < MaxLines
    /\ out' = [out EXCEPT ![j] = Append(@, raw)]
    /\ IF ~Decodable(raw)
       THEN /\ pc' = [pc EXCEPT ![j] = "failed"]
            /\ lm' = Call(j, ErrorMessage(job[j].app_name, DecodeError), "ERROR")
       ELSE /\ pc' = pc
            /\ lm' = IF strip(raw) # <<>>
                     THEN Call(j, LineMessage(job[j].app_name, strip(raw)), "INFO")
                     ELSE lm
    /\ UNCHANGED <<deployment_logs, running_processes, job, proc, hist, ack, req,
                   response, total>>

(* line 62: end of the output, the loop ends *)
ReadEOF(j) ==
    /\ At(j, "read")
    /\ proc[j].state = "exited"
    /\ pc' = [pc EXCEPT ![j] = "wait"]
    /\ UNCHANGED <<deployment_logs, running_processes, lm, job, proc, out, hist, ack,
                   req, response, total>>

(* line 68: return_code = process.wait() *)
Wait(j) ==
    /\ At(j, "wait")
    /\ proc[j].state = "exited"
    /\ proc' = [proc EXCEPT ![j].waited = TRUE]
    /\ pc' = [pc EXCEPT ![j] = "check_key"]
    /\ UNCHANGED <<deployment_logs, running_processes, lm, job, out, hist, ack, req,
                   response, total>>

(* lines 74-77: the closing entry *)
Outcome(j) ==
    IF proc[j].status = 0
    THEN Call(j, SuccessMessage(job[j].app_name), "SUCCESS")
    ELSE Call(j, FailedMessage(job[j].app_name, proc[j].status), "ERROR")

(* line 71: if process_key in running_processes *)
CheckKey(j) ==
    /\ At(j, "check_key")
    /\ IF Key(j) \in DOMAIN running_processes
       THEN /\ pc' = [pc EXCEPT ![j] = "del"]
            /\ lm' = lm
       ELSE /\ pc' = [pc EXCEPT ![j] = "done"]
            /\ lm' = Outcome(j)
    /\ UNCHANGED <<deployment_logs, running_processes, job, proc, out, hist, ack, req,
                   response, total>>

(* line 72: del running_processes[process_key]; KeyError when another thread
   removed the key since line 71, logged by the except clause *)
Remove(d, k) == [x \in DOMAIN d \ {k} |-> d[x]]

DelKey(j) ==
    /\ At(j, "del")
    /\ IF Key(j) \in DOMAIN running_processes
       THEN /\ running_processes' = Remove(running_processes, Key(j))
            /\ pc' = [pc EXCEPT ![j] = "done"]
            /\ lm' = Outcome(j)
       ELSE /\ running_processes' = running_processes
            /\ pc' = [pc EXCEPT ![j] = "failed"]
            /\ lm' = Call(j, ErrorMessage(job[j].app_name, KeyErrorText(Key(j))), "ERROR")
    /\ UNCHANGED <<deployment_logs, job, proc, out, hist, ack, req, response,
                   total>>

----------------------------------------------------------------------------
(* Request handlers.  One request is served at a time by thread 0; the job
   threads run beside it. *)

Idle == req.pc = "idle"

(* The handler may still make a request that writes to the log. *)
MayLog == Len(hist[Handler]) < MaxHandlerLogs

Spawned == {j \in Jobs : pc[j] # "unborn"}

Answer(code, status) == [NoResponse EXCEPT !.code = code, !.status = status]

(* Mutant of DeployApp: the app type is not validated, every type is served
   like a known one. *)
DeployApp_AnyType(app_type, app_name, files) ==
    /\ Idle
    /\ IF files = "no_script" \/ (files = "no_playbook" /\ app_type = "ansible")
       THEN /\ response' = Answer(404, "error")
            /\ req' = [IdleReq EXCEPT !.pc = "reply", !.op = "deploy"]
            /\ UNCHANGED <<lm, pc, job, ack>>
       ELSE IF files = "chmod_fails"
       THEN /\ MayLog
            /\ response' = Answer(500, "error")
            /\ req' = [IdleReq EXCEPT !.pc = "reply", !.op = "deploy"]
            /\ lm' = Call(Handler, ErrorMessage(app_name, ChmodError), "ERROR")
            /\ UNCHANGED <<pc, job, ack>>
       ELSE /\ Cardinality(Spawned) < MaxJobs
            /\ LET j == Cardinality(Spawned) + 1
               IN  /\ pc' = [pc EXCEPT ![j] = "start"]
                   /\ job' = [job EXCEPT ![j] =
                                [app_type |-> app_type, app_name |-> app_name]]
                   /\ ack' = [ack EXCEPT ![j] = "pending"]
                   /\ req' = [IdleReq EXCEPT !.pc = "reply", !.op = "deploy", !.job = j]
            /\ response' = Answer(200, "started")
            /\ lm' = lm
    /\ UNCHANGED <<deployment_logs, running_processes, proc, out, hist, total>>

(* deploy_app, lines 194-255.  files says what the handler finds on disk: the
   script is missing, chmod fails, the playbook is missing, or all is there. *)
DeployApp(app_type, app_name, files) ==
    /\ Idle
    /\ IF app_type \notin DOMAIN script_map
       THEN /\ response' = Answer(400, "error")
            /\ req' = [IdleReq EXCEPT !.pc = "reply", !.op = "deploy"]
            /\ UNCHANGED <<lm, pc, job, ack>>
       ELSE IF files = "no_script" \/ (files = "no_playbook" /\ app_type = "ansible")
       THEN /\ response' = Answer(404, "error")
            /\ req' = [IdleReq EXCEPT !.pc = "reply", !.op = "deploy"]
            /\ UNCHANGED <<lm, pc, job, ack>>
       ELSE IF files = "chmod_fails"
       THEN /\ MayLog
            /\ response' = Answer(500, "error")
            /\ req' = [IdleReq EXCEPT !.pc = "reply", !.op = "deploy"]
            /\ lm' = Call(Handler, ErrorMessage(app_name, ChmodError), "ERROR")
            /\ UNCHANGED <<pc, job, ack>>
       ELSE /\ Cardinality(Spawned) < MaxJobs
            /\ LET j == Cardinality(Spawned) + 1
               IN  /\ pc' = [pc EXCEPT ![j] = "start"]
                   /\ job' = [job EXCEPT ![j] =
                                [app_type |-> app_type, app_name |-> app_name]]
                   /\ ack' = [ack EXCEPT ![j] = "pending"]
                   /\ req' = [IdleReq EXCEPT !.pc = "reply", !.op = "deploy", !.job = j]
            /\ response' = Answer(200, "started")
            /\ lm' = lm
    /\ UNCHANGED <<deployment_logs, running_processes, proc, out, hist, total>>

(* Mutant of StopApp: a stop that succeeds also terminates the process
   registered under the application's key and drops the key. *)
StopApp_TerminatesJob(app_type, app_name, result) ==
    /\ Idle
    /\ req' = [IdleReq EXCEPT !.pc = "reply", !.op = "stop"]
    /\ IF app_type # "docker"
       THEN response' = Answer(501, "error") /\ lm' = lm
       ELSE IF result = "no_dir"
       THEN response' = Answer(404, "error") /\ lm' = lm
       ELSE /\ MayLog
            /\ response' = Answer(IF result = "stopped" THEN 200 ELSE 500,
                                  IF result = "stopped" THEN "stopped" ELSE "error")
            /\ lm' = IF result = "stopped"
                     THEN Call(Handler, StoppedMessage(app_name), "SUCCESS")
                     ELSE IF result = "failed"
                     THEN Call(Handler, StopFailedMessage(app_name, ComposeStderr), "ERROR")
                     ELSE Call(Handler, StopErrorMessage(app_name, ComposeMissing), "ERROR")
    /\ LET key == process_key(app_type, app_name)
       IN  IF app_type = "docker" /\ result = "stopped" /\ key \in DOMAIN running_processes
           THEN /\ running_processes' = Remove(running_processes, key)
                /\ proc' = [proc EXCEPT ![running_processes[key]].state = "exited",
                                        ![running_processes[key]].status = 1]
           ELSE UNCHANGED <<running_processes, proc>>
    /\ UNCHANGED <<deployment_logs, pc, job, out, hist, ack, total>>

(* stop_app, lines 257-288.  result is the outcome of docker-compose down, run
   to its end inside the handler: stopped, failed, no application directory, or
   docker-compose cannot be run. *)
StopApp(app_type, app_name, result) ==
    /\ Idle
    /\ req' = [IdleReq EXCEPT !.pc = "reply", !.op = "stop"]
    /\ IF app_type # "docker"
       THEN response' = Answer(501, "error") /\ lm' = lm
       ELSE IF result = "no_dir"
       THEN response' = Answer(404, "error") /\ lm' = lm
       ELSE /\ MayLog
            /\ response' = Answer(IF result = "stopped" THEN 200 ELSE 500,
                                  IF result = "stopped" THEN "stopped" ELSE "error")
            /\ lm' = IF result = "stopped"
                     THEN Call(Handler, StoppedMessage(app_name), "SUCCESS")
                     ELSE IF result = "failed"
                     THEN Call(Handler, StopFailedMessage(app_name, ComposeStderr), "ERROR")
                     ELSE Call(Handler, StopErrorMessage(app_name, ComposeMissing), "ERROR")
    /\ UNCHANGED <<deployment_logs, running_processes, pc, job, proc, out, hist, ack,
                   total>>

(* Mutant of GetLogs: the first entries, deployment_logs[:50]. *)
GetLogs_First ==
    /\ Idle
    /\ response' = [Answer(200, "ok") EXCEPT
                        !.body = SubSeq(deployment_logs, 1,
                                        IF Len(deployment_logs) > LogsWindow
                                        THEN LogsWindow ELSE Len(deployment_logs))]
    /\ req' = [IdleReq EXCEPT !.pc = "reply", !.op = "logs", !.seen = total]
    /\ UNCHANGED <<deployment_logs, running_processes, lm, pc, job, proc, out, hist,
                   ack, total>>

(* get_logs, lines 290-293: deployment_logs[-50:] *)
GetLogs ==
    /\ Idle
    /\ response' = [Answer(200, "ok") EXCEPT !.body = Last(deployment_logs, LogsWindow)]
    /\ req' = [IdleReq EXCEPT !.pc = "reply", !.op = "logs", !.seen = total]
    /\ UNCHANGED <<deployment_logs, running_processes, lm, pc, job, proc, out, hist,
                   ack, total>>

(* get_status, lines 295-313.  line 300: running_count = len(running_processes) *)
StatusCount ==
    /\ Idle
    /\ req' = [IdleReq EXCEPT !.pc = "status_logs", !.op = "status",
                              !.running_count = Cardinality(DOMAIN running_processes)]
    /\ UNCHANGED <<deployment_logs, running_processes, lm, pc, job, proc, out, hist,
                   ack, response, total>>

(* line 305: len(deployment_logs) *)
StatusLogs ==
    /\ req.pc = "status_logs"
    /\ req' = [req EXCEPT !.pc = "status_keys", !.total_logs = Len(deployment_logs)]
    /\ UNCHANGED <<deployment_logs, running_processes, lm, pc, job, proc, out, hist,
                   ack, response, total>>

(* line 307: list(running_processes.keys()) *)
StatusKeys ==
    /\ req.pc = "status_keys"
    /\ response' = [Answer(200, "ok") EXCEPT
                        !.running_deployments = req.running_count,
                        !.total_logs = req.total_logs,
                        !.processes = DOMAIN running_processes]
    /\ req' = [req EXCEPT !.pc = "reply"]
    /\ UNCHANGED <<deployment_logs, running_processes, lm, pc, job, proc, out, hist,
                   ack, total>>

(* Mutant of Reply: deploy_app joins the thread it started before it answers. *)
Reply_JoinsJob ==
    /\ req.pc = "reply"
    /\ Returned(Handler)
    /\ req.job # 0 => (pc[req.job] \in {"done", "failed"} /\ Returned(req.job))
    /\ ack' = IF req.job # 0 THEN [ack EXCEPT ![req.job] = response.status] ELSE ack
    /\ req' = IdleReq
    /\ response' = NoResponse
    /\ UNCHANGED <<deployment_logs, running_processes, lm, pc, job, proc, out, hist,
                   total>>

(* The handler returns its response to the client. *)
Reply ==
    /\ req.pc = "reply"
    /\ Returned(Handler)
    /\ ack' = IF req.job # 0 THEN [ack EXCEPT ![req.job] = response.status] ELSE ack
    /\ req' = IdleReq
    /\ response' = NoResponse
    /\ UNCHANGED <<deployment_logs, running_processes, lm, pc, job, proc, out, hist,
                   total>>

----------------------------------------------------------------------------
(* Specifications *)

FileStates == {"ok", "no_script", "chmod_fails", "no_playbook"}
StopResults == {"stopped", "failed", "no_dir", "no_compose"}

LogStep == \E t \in Threads : LogAppend(t) \/ LogLen(t) \/ LogPop(t)

(* The steps of log_message on a log that stays below MaxLogs entries, where
   line 36 is never reached. *)
LogStepBelowCap == \E t \in Threads : LogAppend(t) \/ LogLen(t)

(* The steps of the job threads and of their processes, the processes writing
   lines drawn from the set lines. *)
JobStepWith(lines) ==
    \E j \in Jobs :
        \/ RunStart(j)
        \/ \E launched \in BOOLEAN : Popen(j, launched)
        \/ Register(j)
        \/ \E rc \in ExitCodes : ProcExit(j, rc)
        \/ \E raw \in lines : ReadLine(j, raw)
        \/ ReadEOF(j)
        \/ Wait(j)
        \/ CheckKey(j)
        \/ DelKey(j)

JobStep == JobStepWith(OutputLines)

RequestStep ==
    \/ \E ty \in RequestTypes, n \in AppNames, f \in FileStates : DeployApp(ty, n, f)
    \/ \E ty \in RequestTypes, n \in AppNames, r \in StopResults : StopApp(ty, n, r)
    \/ GetLogs
    \/ StatusCount
    \/ StatusLogs
    \/ StatusKeys
    \/ Reply

(* The whole program on an empty log.  The specifications after it are the
   same program in scenarios: each takes the actions and the inputs of its
   scenario, so that all its interleavings can be enumerated. *)
Init == InitWith(0)

Next == LogStep \/ JobStep \/ RequestStep

Spec == Init /\ [][Next]_vars

(* How the handler finds the files of a deploy request when nothing fails. *)
FilesFound == {"ok", "no_script", "no_playbook"}

DeployStep ==
    \/ \E ty \in RequestTypes, n \in AppNames, f \in FilesFound : DeployApp(ty, n, f)
    \/ Reply

(* Jobs started on an empty log; the handler serves deploy requests only. *)
NextJobs == LogStepBelowCap \/ JobStep \/ DeployStep

SpecJobs == Init /\ [][NextJobs]_vars

(* One job and the handler's stop and log requests on a log that is about to
   reach LogsWindow entries, about to reach MaxLogs entries, or full. *)
PriorTotals == {LogsWindow - 2, MaxLogs - 1, MaxLogs + 19}

InitLog == \E n \in PriorTotals : InitWith(n)

LogRequestStep ==
    \/ \E ty \in RequestTypes, n \in AppNames, f \in FileStates :
          Spawned = {} /\ DeployApp(ty, n, f)
    \/ \E ty \in RequestTypes, n \in AppNames, r \in StopResults : StopApp(ty, n, r)
    \/ GetLogs
    \/ Reply

NextLog == LogStep \/ JobStep \/ LogRequestStep

SpecLog == InitLog /\ [][NextLog]_vars

(* The threads are scheduled fairly: a thread that can take a step of its own
   code takes it.  Nothing is assumed of the processes (ProcExit, ReadLine) or
   of the clients. *)
Progress(t) ==
    \/ LogAppend(t) \/ LogLen(t) \/ LogPop(t)
    \/ /\ t \in Jobs
       /\ \/ RunStart(t)
          \/ \E launched \in BOOLEAN : Popen(t, launched)
          \/ Register(t)
          \/ ReadEOF(t)
          \/ Wait(t)
          \/ CheckKey(t)
          \/ DelKey(t)
    \/ /\ t = Handler
       /\ (StatusLogs \/ StatusKeys \/ Reply)

(* The scenario of SpecJobs with fewer kinds of output lines, under fair
   scheduling of the threads. *)
NextFair == LogStepBelowCap \/ JobStepWith({LineDone, LineUndecodable}) \/ DeployStep

SpecFair == Init /\ [][NextFair]_vars /\ \A t \in Threads : WF_vars(Progress(t))

(* The handler serves deploy and status requests while jobs start and finish
   on an empty log. *)
StatusStep ==
    \/ \E ty \in RequestTypes, n \in AppNames, f \in FilesFound : DeployApp(ty, n, f)
    \/ StatusCount
    \/ StatusLogs
    \/ StatusKeys
    \/ Reply

NextStatus == LogStepBelowCap \/ JobStepWith({LineDone}) \/ StatusStep

SpecStatus == Init /\ [][NextStatus]_vars

----------------------------------------------------------------------------
(* Vocabulary of the claims *)

Finished(j) == pc[j] \in {"done", "failed"} /\ Returned(j)

Launched(j) == proc[j].state # "none"

WasRegistered(j) == Launched(j) /\ pc[j] # "register"

Successes(j) == SelectSeq(hist[j], LAMBDA e : e.level = "SUCCESS")

Errors(j) == SelectSeq(hist[j], LAMBDA e : e.level = "ERROR")

Registered == DOMAIN running_processes

----------------------------------------------------------------------------
(* C1: in every state the log holds at most MaxLogs = 100 entries, also while
   threads are between the append and the eviction of log_message. *)
C1_LogNeverExceedsCap == Len(deployment_logs) <= MaxLogs

(* C2: once deploy_app has answered "started" for a job whose process was
   launched, the job's key is in running_processes in every state until the
   job's thread has observed the exit of the process (process.wait() returned).
   Stated for the threads that reach wait(): a thread that died of a read error
   is left out. *)
C2_RegisteredFromStartedUntilExit ==
    \A j \in Jobs :
        (ack[j] = "started" /\ Launched(j) /\ ~proc[j].waited /\ pc[j] # "failed")
            => Key(j) \in Registered

(* C3: a registered job whose process exits is eventually absent from
   running_processes, and an absent key comes back only by the registration of
   a job with that key. *)
C3_ExitLeadsToAbsent ==
    /\ \A j \in Jobs :
          (WasRegistered(j) /\ proc[j].state = "exited") ~> (Key(j) \notin Registered)
    /\ [][\A j \in Jobs :
            (pc[j] # "unborn" /\ Key(j) \notin Registered /\ Key(j) \in Registered')
                => \E i \in Jobs : Key(i) = Key(j) /\ pc[i] = "register" /\ pc'[i] = "read"]_vars

(* C4: a key is in running_processes if and only if a process launched for that
   key is running, or has exited and its thread has not yet passed the removal
   at lines 71-72. *)
AwaitsRemoval(j) ==
    /\ proc[j].state = "exited"
    /\ pc[j] # "done"
    /\ ~(pc[j] = "failed" /\ proc[j].waited)

C4_KeyPresentIffProcessLive ==
    \A j \in Spawned :
        Key(j) \in Registered <=>
            \E i \in Spawned :
                /\ Key(i) = Key(j)
                /\ (proc[i].state = "running" \/ AwaitsRemoval(i))

(* C5: a job whose thread obtained exit code 0 has appended exactly one SUCCESS
   entry, "Successfully deployed <name>", and no ERROR entry; with exit code
   c # 0 it has appended exactly one ERROR entry, which names c, and no SUCCESS
   entry. *)
C5_OneClosingEntryPerExitCode ==
    \A j \in Jobs :
        (Finished(j) /\ proc[j].waited) =>
            IF proc[j].status = 0
            THEN /\ Len(Successes(j)) = 1
                 /\ Successes(j)[1].message = SuccessMessage(job[j].app_name)
                 /\ Errors(j) = <<>>
            ELSE /\ Len(Errors(j)) = 1
                 /\ Errors(j)[1].message = FailedMessage(job[j].app_name, proc[j].status)
                 /\ Successes(j) = <<>>

(* C6: a job whose launch failed has appended exactly one ERROR entry and no
   SUCCESS entry, running_processes never holds it (and never holds its key
   unless another job uses that key), and its deploy request answers
   "started". *)
LaunchFailed(j) == pc[j] = "failed" /\ ~Launched(j)

LineEntries(j, message) ==
    {p \in 1 .. Len(deployment_logs) :
        /\ deployment_logs[p].thread = j
        /\ deployment_logs[p].level = "INFO"
        /\ deployment_logs[p].message = message}

C7_EveryLineLoggedAsWritten ==
    \A j \in Jobs, other \in Jobs :
        (/\ pc[j] = "done" /\ Returned(j)
         /\ pc[other] = "done" /\ Returned(other)
         /\ Key(j) # Key(other)
         /\ total < MaxLogs)
        => \A i \in 1 .. Len(out[j]) :
              out[j][i] # <<>> =>
                  Cardinality(LineEntries(j, LineMessage(job[j].app_name, out[j][i])))
                      = Cardinality({k \in 1 .. Len(out[j]) : out[j][k] = out[j][i]})

(* C7, amended: when two jobs with distinct keys have both ended and the log
   has not reached its cap, the INFO entries of each job in the log are its
   "Starting" entry followed by one entry "[<name>] <line>" for each line its
   thread read before any read failure, in the order read, where <line> is the
   line with surrounding whitespace stripped and a line of whitespace only
   gives no entry. *)
RECURSIVE ExpectedLines(_, _)
ExpectedLines(app_name, raws) ==
    IF raws = <<>> \/ ~Decodable(Head(raws)) THEN <<>>
    ELSE LET rest == ExpectedLines(app_name, Tail(raws))
             kept == rstrip(lstrip(Head(raws)))
         IN  IF kept = <<>> THEN rest
             ELSE <<"[" \o app_name \o "] " \o text(kept)>> \o rest

InfoMessages(j) ==
    LET own == SelectSeq(deployment_logs,
                         LAMBDA e : e.thread = j /\ e.level = "INFO")
    IN  [p \in 1 .. Len(own) |-> own[p].message]

C7_EveryReadLineLoggedStripped ==
    \A j \in Jobs, other \in Jobs :
        (/\ Finished(j) /\ Finished(other)
         /\ Key(j) # Key(other)
         /\ total < MaxLogs)
        => InfoMessages(j) =
              <<StartingMessage(job[j].app_type, job[j].app_name)>>
                  \o ExpectedLines(job[j].app_name, out[j])

C7_Witness ==
    \E j \in Jobs, other \in Jobs :
        /\ Finished(j) /\ Finished(other)
        /\ Key(j) # Key(other)
        /\ Len(ExpectedLines(job[j].app_name, out[j])) > 0
        /\ Len(ExpectedLines(job[other].app_name, out[other])) > 0
        /\ \E p, q, r \in 1 .. Len(deployment_logs) :
              /\ p < q /\ q < r
              /\ deployment_logs[p].thread = j
              /\ deployment_logs[q].thread = other
              /\ deployment_logs[r].thread = j
              /\ deployment_logs[q].level = "INFO"
              /\ deployment_logs[r].level = "INFO"

(* C8: the entries of one job that are still in the log stand in the order in
   which the job appended them. *)
JobPositions(j) == {p \in 1 .. Len(deployment_logs) : deployment_logs[p].thread = j}

C8_JobEntriesKeepTheirOrder ==
    \A j \in Jobs :
        \A p, q \in JobPositions(j) :
            p < q =>
                \E a, b \in 1 .. Len(hist[j]) :
                    /\ a < b
                    /\ hist[j][a] = deployment_logs[p]
                    /\ hist[j][b] = deployment_logs[q]

C8_Witness ==
    \E j \in Jobs :
        /\ Len(deployment_logs) = MaxLogs
        /\ total > MaxLogs
        /\ Len(hist[j]) > 2
        /\ Len(hist[Handler]) > 0
        /\ hist[j][2].message = LineMessage(job[j].app_name, LineBuilding)
        /\ hist[j][3].message = LineMessage(job[j].app_name, strip(LineDone))
        /\ \E p, q, r \in 1 .. Len(deployment_logs) :
              /\ p < q /\ q < r
              /\ deployment_logs[p] = hist[j][2]
              /\ deployment_logs[q] = hist[Handler][1]
              /\ deployment_logs[r] = hist[j][3]

C10_DeployAlwaysAnswered ==
    \A j \in Jobs : (ack[j] = "pending") ~> (ack[j] = "started")

C10_Witness ==
    \E j \in Jobs :
        /\ ack[j] = "started"
        /\ pc[j] = "read" /\ proc[j].state = "running" /\ out[j] = <<>>

(* C11: every status response is a snapshot of the registry: its
   running_deployments equals the number of keys in its processes list, also
   when jobs register or unregister during the request. *)
C11_StatusCountMatchesKeys ==
    (req.op = "status" /\ req.pc = "reply")
        => response.running_deployments = Cardinality(response.processes)

(* C12: a deploy request whose app type is none of docker, kubernetes, ansible,
   terraform is answered 400 and starts nothing: no thread is started, no
   process is launched, running_processes is unchanged and no entry is appended
   to the log by the handler or for the request. *)
C12_UnknownTypeStartsNothing ==
    [][\A ty \in RequestTypes \ {"docker", "kubernetes", "ansible", "terraform"},
          n \in AppNames, f \in FileStates :
            DeployApp(ty, n, f) =>
                /\ response'.code = 400 /\ response'.status = "error"
                /\ req'.job = 0
                /\ UNCHANGED <<deployment_logs, running_processes, lm, pc, job, proc,
                               out, hist, ack, total>>]_vars

C12_Witness ==
    /\ req.op = "deploy" /\ req.pc = "reply" /\ response.code = 400
    /\ req.job = 0
    /\ \E j \in Jobs : Key(j) \in Registered /\ proc[j].state = "running"
    /\ Cardinality(Spawned) < MaxJobs

(* The steps of the handler that serve a stop request, from its arrival to
   its response. *)
StopRequestStep ==
    \/ \E ty \in RequestTypes, n \in AppNames, r \in StopResults : StopApp(ty, n, r)
    \/ /\ req.op = "stop"
       /\ LogAppend(Handler) \/ LogLen(Handler) \/ LogPop(Handler) \/ Reply

(* C13: no step of a stop request changes running_processes or the state of a
   process launched by a deploy, whatever the outcome of the stop: a job
   registered and running before the request is registered and running when
   the request has been answered.  For a type other than docker the response
   is 501 and neither the log nor running_processes changes. *)
C13_StopLeavesJobsAlone ==
    [][/\ StopRequestStep => UNCHANGED <<running_processes, proc, pc, job>>
       /\ \A ty \in RequestTypes \ {"docker"}, n \in AppNames, r \in StopResults :
            StopApp(ty, n, r) =>
                /\ response'.code = 501
                /\ UNCHANGED <<deployment_logs, lm, hist, total, running_processes>>]_vars

C13_Witness ==
    /\ req.op = "stop" /\ req.pc = "reply" /\ Returned(Handler)
    /\ response.code = 200 /\ response.status = "stopped"
    /\ Len(hist[Handler]) > 0
    /\ hist[Handler][Len(hist[Handler])].message = "Stopped Docker application: myapp"
    /\ \E j \in Jobs :
        /\ job[j] = [app_type |-> "docker", app_name |-> "myapp"]
        /\ "docker_myapp" \in Registered /\ running_processes["docker_myapp"] = j
        /\ proc[j].state = "running" /\ pc[j] = "read"

(* The job's key is used by no other job that was started. *)
KeyIsOwn(j) == \A i \in Spawned \ {j} : Key(i) # Key(j)

Closing(j) == SelectSeq(hist[j], LAMBDA e : e.level \in {"SUCCESS", "ERROR"})

(* C14: the entries of every job follow the lifecycle order: the Starting
   INFO entry comes before the job's output lines, the SUCCESS or ERROR entry
   that ends the job comes after all of them, and, when no other job uses the
   key, the key is already out of running_processes when that entry is
   appended.  A job docker/myapp that prints "building" and "done" and exits
   0 with nothing else running leaves "[myapp] building", "[myapp] done",
   "Successfully deployed myapp" at the end of the log and no key. *)
C14_LifecycleOrder ==
    \A j \in Jobs :
        /\ Len(hist[j]) > 0 =>
              /\ hist[j][1].level = "INFO"
              /\ hist[j][1].message =
                    "Starting " \o job[j].app_type \o " deployment: " \o job[j].app_name
        /\ \A i \in 1 .. Len(hist[j]) :
              /\ hist[j][i].level \in {"SUCCESS", "ERROR"} => i = Len(hist[j])
              /\ (i > 1 /\ hist[j][i].level = "INFO") =>
                    \E raw \in OutputLines :
                        hist[j][i].message = LineMessage(job[j].app_name, strip(raw))
        /\ (Len(Closing(j)) > 0 /\ KeyIsOwn(j)) => Key(j) \notin Registered
        /\ (/\ Spawned = {j} /\ Finished(j)
            /\ job[j] = [app_type |-> "docker", app_name |-> "myapp"]
            /\ out[j] = <<LineBuilding, LineDone>>
            /\ proc[j].status = 0)
           => /\ Len(deployment_logs) >= 3
              /\ [i \in 1 .. 3 |-> Last(deployment_logs, 3)[i].message]
                    = <<"[myapp] building", "[myapp] done", "Successfully deployed myapp">>
              /\ "docker_myapp" \notin Registered

(* The part of C14 that concerns jobs whose thread reaches lines 70-77: their
   SUCCESS or "Failed to deploy" entry is appended after the key was removed. *)
C14_OrderOnProcessExit ==
    \A j \in Jobs :
        (pc[j] = "done" /\ KeyIsOwn(j)) => Key(j) \notin Registered

(* C15: a start for a key that is already in running_processes is not
   rejected: the deploy request is answered "started" and starts a thread like
   any other, and when the thread reaches line 59 the entry of the key becomes
   its own process, whatever was stored there; no process is stopped by it and
   the registry keeps one entry for the key. *)
C15_DuplicateStartOverwrites ==
    [][/\ \A ty \in RequestTypes \cap {"docker", "kubernetes", "ansible", "terraform"},
            n \in AppNames :
            DeployApp(ty, n, "ok") =>
                /\ response'.code = 200 /\ response'.status = "started"
                /\ Cardinality(Spawned') = Cardinality(Spawned) + 1
                /\ pc'[req'.job] = "start"
                /\ job'[req'.job] = [app_type |-> ty, app_name |-> n]
       /\ \A j \in Jobs :
            (pc[j] = "register" /\ pc'[j] # "register") =>
                /\ pc'[j] = "read"
                /\ DOMAIN running_processes' = DOMAIN running_processes \cup {Key(j)}
                /\ running_processes'[Key(j)] = j
                /\ \A k \in DOMAIN running_processes \ {Key(j)} :
                      running_processes'[k] = running_processes[k]
                /\ proc' = proc]_vars

C15_Witness ==
    /\ Cardinality(Registered) = 1
    /\ \E i, j \in Jobs :
        /\ i < j /\ Key(i) = Key(j)
        /\ proc[i].state = "running" /\ proc[j].state = "running"
        /\ pc[i] = "read" /\ pc[j] = "read"
        /\ running_processes[Key(i)] = j

(* C16: whenever no thread is inside log_message, the log holds exactly the
   last min(T, 100) of the T entries appended so far, in the order of their
   appends, none missing and none twice, for every interleaving of concurrent
   log_message calls. *)
C16_EvictionIsExact ==
    (\A t \in Threads : lm[t].pc = "idle") =>
        /\ Len(deployment_logs) = (IF total < 100 THEN total ELSE 100)
        /\ \A i \in 1 .. Len(deployment_logs) :
              deployment_logs[i].seq = total - Len(deployment_logs) + i

(* C17: a job whose thread raised after it stored its key (line 59) has ended
   with one ERROR entry and without its entry in running_processes, so every
   key of the registry belongs to a job whose thread has not ended. *)
C17_NoStaleKey ==
    /\ \A j \in Jobs :
          (WasRegistered(j) /\ pc[j] = "failed" /\ Returned(j)) =>
              /\ Len(Errors(j)) = 1
              /\ \A k \in Registered : running_processes[k] # j
    /\ \A k \in Registered : ~ Finished(running_processes[k])

====
